---------------------------- MODULE Spec2Model ----------------------------
(***************************************************************************)
(* cyberdog_gazebo/include/ctrl_ros/utilities/utilities.h                  *)
(*                                                                         *)
(* The header is a set of free functions without shared state.  The model  *)
(* is a caller that invokes one function with inputs drawn from bounded    *)
(* sets.                                                                   *)
(* StringToEigen and Check2DArraySize, which loop, run one step of their   *)
(* code per action; the scalar functions are operators applied in a single *)
(* step.  Scalars are integers (an exactly ordered numeric type).          *)
(***************************************************************************)
EXTENDS Integers, Sequences, FiniteSets

VARIABLES
    fn,      \* the function the caller invoked last ("none" before any call)
    f,       \* StringToEigen: the frame (str, Rows, Cols, pos, i, j, start, m, ...)
    expect,  \* the numbers the caller formatted into f.str (<< >>: a raw string)
    c,       \* Check2DArraySize: the frame (arr, rows, cols, i, ...)
    args,    \* scalar functions: the arguments of the call
    res,     \* scalar functions: the number returned
    truth,   \* IsNumbersEqual: the bool returned
    status,  \* scalar functions: "idle" | "returned" | "aborted"
    chained  \* WrapRange: TRUE when args[1] is the result of the previous call

vars == <<fn, f, expect, c, args, res, truth, status, chained>>

----------------------------------------------------------------------------
(* Bounds of the model *)

MaxLen == 4
MaxNum == 2
MaxArr == 2

----------------------------------------------------------------------------
(* Characters and strings.  A std::string is a sequence of one-character   *)
(* strings; str.at(k) is str[k + 1].                                       *)

Alphabet == {" ", "[", "]", ",", "1", "a"}

Strings(n) == UNION {[1..k -> Alphabet] : k \in 0..n}

DigitChars == {"0", "1", "2", "3", "4", "5", "6", "7", "8", "9"}

DigitValue(ch) ==
    CASE ch = "0" -> 0 [] ch = "1" -> 1 [] ch = "2" -> 2 [] ch = "3" -> 3
      [] ch = "4" -> 4 [] ch = "5" -> 5 [] ch = "6" -> 6 [] ch = "7" -> 7
      [] ch = "8" -> 8 [] ch = "9" -> 9

DropSpaces(s) ==
    LET first == {k \in 1..Len(s) : s[k] # " "}
    IN  IF first = {} THEN << >>
        ELSE SubSeq(s, CHOOSE k \in first : \A l \in first : k <= l, Len(s))

\* the longest prefix of s made of decimal digits
DigitRun(s) ==
    LET stop == {k \in 1..Len(s) : s[k] \notin DigitChars}
    IN  IF stop = {} THEN s
        ELSE SubSeq(s, 1, (CHOOSE k \in stop : \A l \in stop : k <= l) - 1)

RECURSIVE DecimalValue(_)
DecimalValue(ds) ==
    IF ds = << >> THEN 0
    ELSE 10 * DecimalValue(SubSeq(ds, 1, Len(ds) - 1)) + DigitValue(ds[Len(ds)])

\* StringToNumber<T>(str): std::stod / std::stof on text made of spaces, a
\* sign and decimal digits.  Leading spaces are skipped, the longest numeric
\* prefix is converted, what follows it is ignored; with no digit to convert
\* std::invalid_argument is thrown (ok = FALSE).
StringToNumber(str) ==
    LET t      == DropSpaces(str)
        signed == t # << >> /\ t[1] \in {"-", "+"}
        body   == IF signed THEN Tail(t) ELSE t
        ds     == DigitRun(body)
    IN  IF ds = << >> THEN [ok |-> FALSE, val |-> 0]
        ELSE [ok |-> TRUE,
              val |-> IF signed /\ t[1] = "-" THEN 0 - DecimalValue(ds)
                      ELSE DecimalValue(ds)]

----------------------------------------------------------------------------
(* StringToEigen<T, Rows, Cols>(str)                                       *)

NoMatrix == << >>

Indices(Rows, Cols) == (0..(Rows - 1)) \X (0..(Cols - 1))

\* the frame at entry: m is declared and not yet written, pos = 0
EigenEntry(str, Rows, Cols) ==
    [str |-> str, Rows |-> Rows, Cols |-> Cols, pos |-> 0, i |-> 0, j |-> 0,
     start |-> 0, m |-> NoMatrix, pc |-> "seek_open", exc |-> "none",
     ret |-> NoMatrix]

NoFrame == EigenEntry(<< >>, 1, 1)

\* str.at(pos) throws std::out_of_range unless pos < str.size()
InRange(fr) == fr.pos < Len(fr.str)

At(fr) == fr.str[fr.pos + 1]

Throw(fr, e) == [fr EXCEPT !.pc = "thrown", !.exc = e]

\* while ( str.at( pos ) == ' ' ) pos++;
SeekOpen(fr) ==
    IF ~InRange(fr) THEN Throw(fr, "out_of_range")
    ELSE IF At(fr) = " " THEN [fr EXCEPT !.pos = fr.pos + 1]
    ELSE [fr EXCEPT !.pc = "open"]

\* mutant: the character after the spaces is taken for the bracket unseen
OpenBracket_AnyCharacter(fr) ==
    IF ~InRange(fr) THEN Throw(fr, "out_of_range")
    ELSE [fr EXCEPT !.pos = fr.pos + 1, !.pc = "seek_number"]

\* if ( str.at( pos ) == '[' ) pos++; else throw std::runtime_error
OpenBracket(fr) ==
    IF ~InRange(fr) THEN Throw(fr, "out_of_range")
    ELSE IF At(fr) = "[" THEN [fr EXCEPT !.pos = fr.pos + 1, !.pc = "seek_number"]
    ELSE Throw(fr, "runtime_error")

\* mutant: the loop over the spaces forgets pos++
SeekNumber_Stuck(fr) ==
    IF ~InRange(fr) THEN Throw(fr, "out_of_range")
    ELSE IF At(fr) = " " THEN fr
    ELSE [fr EXCEPT !.start = fr.pos, !.pc = "seek_end"]

\* while ( str.at( pos ) == ' ' ) pos++;  size_t start = pos;
SeekNumber(fr) ==
    IF ~InRange(fr) THEN Throw(fr, "out_of_range")
    ELSE IF At(fr) = " " THEN [fr EXCEPT !.pos = fr.pos + 1]
    ELSE [fr EXCEPT !.start = fr.pos, !.pc = "seek_end"]

\* mutant: the end of the string ends a number as ',' and ']' do
SeekEnd_StopsAtEnd(fr) ==
    IF ~InRange(fr) THEN [fr EXCEPT !.pc = "convert"]
    ELSE IF At(fr) # "," /\ At(fr) # "]" THEN [fr EXCEPT !.pos = fr.pos + 1]
    ELSE [fr EXCEPT !.pc = "convert"]

\* while ( str.at( pos ) != ',' && str.at( pos ) != ']' ) pos++;
SeekEnd(fr) ==
    IF ~InRange(fr) THEN Throw(fr, "out_of_range")
    ELSE IF At(fr) # "," /\ At(fr) # "]" THEN [fr EXCEPT !.pos = fr.pos + 1]
    ELSE [fr EXCEPT !.pc = "convert"]

\* m( i, j ) = value
Store(m, i, j, value) ==
    [x \in (DOMAIN m) \cup {<<i, j>>} |-> IF x = <<i, j>> THEN value ELSE m[x]]

\* mutant: the number is stored at ( j, i )
Convert_Transposed(fr) ==
    LET n    == StringToNumber(SubSeq(fr.str, fr.start + 1, fr.pos))
        rowEnd == fr.j + 1 >= fr.Cols
        i2   == IF rowEnd THEN fr.i + 1 ELSE fr.i
        j2   == IF rowEnd THEN 0 ELSE fr.j + 1
    IN  IF ~n.ok THEN Throw(fr, "invalid_argument")
        ELSE [fr EXCEPT !.m = Store(fr.m, fr.j, fr.i, n.val),
                        !.pos = fr.pos + 1, !.i = i2, !.j = j2,
                        !.pc = IF i2 < fr.Rows THEN "seek_number" ELSE "return"]

\* m( i, j ) = StringToNumber< T >( str.substr( start, pos - start ) ); pos++;
\* then the headers of the two for loops: j++, and i++ when the row is full
Convert(fr) ==
    LET n    == StringToNumber(SubSeq(fr.str, fr.start + 1, fr.pos))
        rowEnd == fr.j + 1 >= fr.Cols
        i2   == IF rowEnd THEN fr.i + 1 ELSE fr.i
        j2   == IF rowEnd THEN 0 ELSE fr.j + 1
    IN  IF ~n.ok THEN Throw(fr, "invalid_argument")
        ELSE [fr EXCEPT !.m = Store(fr.m, fr.i, fr.j, n.val),
                        !.pos = fr.pos + 1, !.i = i2, !.j = j2,
                        !.pc = IF i2 < fr.Rows THEN "seek_number" ELSE "return"]

\* mutant: text after the last terminator is an error
Return_RequiresEnd(fr) ==
    IF fr.pos # Len(fr.str) THEN Throw(fr, "runtime_error")
    ELSE [fr EXCEPT !.pc = "returned", !.ret = fr.m]

\* return m;
Return(fr) == [fr EXCEPT !.pc = "returned", !.ret = fr.m]

Finished(fr) == fr.pc \in {"returned", "thrown"}

\* one step of the function body from frame fr
Step(fr) ==
    CASE fr.pc = "seek_open"   -> SeekOpen(fr)
      [] fr.pc = "open"        -> OpenBracket(fr)
      [] fr.pc = "seek_number" -> SeekNumber(fr)
      [] fr.pc = "seek_end"    -> SeekEnd(fr)
      [] fr.pc = "convert"     -> Convert(fr)
      [] fr.pc = "return"      -> Return(fr)
      [] OTHER                 -> fr

\* the whole call: the frame in which StringToEigen<T, Rows, Cols>(str) ends.
\* Every step that does not end the call moves pos or pc forward, and pos is
\* at most Len(str), so fuel 3 * Len(str) + 4 is never used up.
RECURSIVE RunFrom(_, _)
RunFrom(fr, fuel) ==
    IF Finished(fr) \/ fuel = 0 THEN fr ELSE RunFrom(Step(fr), fuel - 1)

StringToEigen(str, Rows, Cols) ==
    RunFrom(EigenEntry(str, Rows, Cols), 3 * Len(str) + 4)


----------------------------------------------------------------------------
(* Check2DArraySize(arr, rows, cols)                                        *)

CheckEntry(arr, rows, cols) ==
    [arr |-> arr, rows |-> rows, cols |-> cols, i |-> 0, pc |-> "outer",
     ret |-> FALSE, oob |-> FALSE]

NoCheck == CheckEntry(<< >>, 0, 0)

\* mutant: the size of the outer vector is not compared with rows
CheckOuter_NoSizeTest(cf) == [cf EXCEPT !.pc = "inner", !.i = 0]

\* if ( ( int )arr.size() != rows ) return false;  then  int i = 0
CheckOuter(cf) ==
    IF Len(cf.arr) # cf.rows THEN [cf EXCEPT !.pc = "returned", !.ret = FALSE]
    ELSE [cf EXCEPT !.pc = "inner", !.i = 0]

\* for ( ; i < rows; i++ ) if ( ( int )arr[ i ].size() != cols ) return false;
\* return true;
\* arr[ i ] with i outside the vector is undefined: the size read there is
\* any value, so either branch may be taken (oob records the access).
CheckInner(cf) ==
    IF ~(cf.i < cf.rows) THEN {[cf EXCEPT !.pc = "returned", !.ret = TRUE]}
    ELSE IF cf.i >= 0 /\ cf.i < Len(cf.arr)
         THEN IF Len(cf.arr[cf.i + 1]) # cf.cols
              THEN {[cf EXCEPT !.pc = "returned", !.ret = FALSE]}
              ELSE {[cf EXCEPT !.i = cf.i + 1]}
    ELSE {[cf EXCEPT !.pc = "returned", !.ret = FALSE, !.oob = TRUE],
          [cf EXCEPT !.i = cf.i + 1, !.oob = TRUE]}

----------------------------------------------------------------------------
(* Scalar functions                                                         *)

Num == (0 - MaxNum)..MaxNum

\* std::abs
Abs(x) == IF x < 0 THEN 0 - x ELSE x

\* std::max( a, b ) is ( a < b ) ? b : a;  std::min( a, b ) is ( b < a ) ? b : a
StdMax(a, b) == IF a < b THEN b ELSE a

StdMin(a, b) == IF b < a THEN b ELSE a

\* mutant: < for <=
IsNumbersEqual_Strict(a, b, tol) == Abs(a - b) < tol

\* return std::abs( a - b ) <= tol;
IsNumbersEqual(a, b, tol) == Abs(a - b) <= tol

\* mutant: the test against max is missing
WrapRange_NoUpperBound(target, min, max) ==
    IF target < min THEN min ELSE target

\* T result = target; if ( result < min ) result = min;
\* if ( max < result ) result = max; return result;
WrapRange(target, min, max) ==
    LET result == IF target < min THEN min ELSE target
    IN  IF max < result THEN max ELSE result

\* mutant: <= and >= for < and >
ApplyDeadband_Inclusive(x, range) ==
    IF x <= range /\ x >= 0 - range THEN 0 ELSE x

\* if ( x < range && x > -range ) x = T( 0 ); return x;
ApplyDeadband(x, range) == IF x < range /\ x > 0 - range THEN 0 ELSE x

\* mutant: the value is clamped before the deadband is applied
ApplyDeadbandRange_ClampFirst(x, range, min, max) ==
    LET y == StdMin(StdMax(x, min), max)
    IN  IF y < range /\ y > 0 - range THEN 0 ELSE y

\* the overload with min and max:
\* if ( x < range && x > -range ) x = T( 0 );
\* return std::min( std::max( x, min ), max );
ApplyDeadbandRange(x, range, min, max) ==
    LET y == IF x < range /\ x > 0 - range THEN 0 ELSE x
    IN  StdMin(StdMax(y, min), max)

----------------------------------------------------------------------------
(* The caller: the text of a matrix as a configuration file holds it       *)

\* the instantiations StringToEigen< T, Rows, Cols > the caller uses
Shapes == {<<1, 1>>, <<1, 2>>, <<2, 1>>, <<2, 2>>, <<2, 3>>}

NumVals == {12, -3}

Tails == {<< >>, <<"a">>, <<",", "1", "]">>}

DigitChar(d) ==
    CASE d = 0 -> "0" [] d = 1 -> "1" [] d = 2 -> "2" [] d = 3 -> "3"
      [] d = 4 -> "4" [] d = 5 -> "5" [] d = 6 -> "6" [] d = 7 -> "7"
      [] d = 8 -> "8" [] d = 9 -> "9"

RECURSIVE Decimal(_)
Decimal(n) ==
    IF n < 10 THEN <<DigitChar(n)>>
    ELSE Decimal(n \div 10) \o <<DigitChar(n % 10)>>

NumberText(n) == IF n < 0 THEN <<"-">> \o Decimal(0 - n) ELSE Decimal(n)

RECURSIVE ItemsText(_, _, _, _)
ItemsText(vals, k, pad, last) ==
    IF k > Len(vals) THEN << >>
    ELSE (IF pad THEN <<" ">> ELSE << >>) \o NumberText(vals[k])
         \o <<IF k < Len(vals) THEN "," ELSE last>>
         \o ItemsText(vals, k + 1, pad, last)

\* optional spaces, '[', the numbers in row-major order separated by ',',
\* each optionally preceded by a space, the terminator of the last number,
\* and whatever follows it
MatrixText(vals, pad, last, tail) ==
    (IF pad THEN <<" ">> ELSE << >>) \o <<"[">> \o ItemsText(vals, 1, pad, last)
    \o tail

Arrays == UNION {[1..k -> UNION {[1..l -> {0}] : l \in 0..MaxArr}] : k \in 0..MaxArr}

----------------------------------------------------------------------------
(* State machine                                                            *)

Init ==
    /\ fn = "none"
    /\ f = NoFrame
    /\ expect = << >>
    /\ c = NoCheck
    /\ args = << >>
    /\ res = 0
    /\ truth = FALSE
    /\ status = "idle"
    /\ chained = FALSE

\* the caller has not called yet
Idle == fn = "none"

Invoke(name, frame, numbers, check, arguments, result, st, ch) ==
    /\ fn' = name
    /\ f' = frame
    /\ expect' = numbers
    /\ c' = check
    /\ args' = arguments
    /\ res' = result
    /\ truth' = FALSE
    /\ status' = st
    /\ chained' = ch

\* StringToEigen on an arbitrary string
CallStringToEigen ==
    /\ Idle
    /\ \E str \in Strings(MaxLen), shape \in Shapes :
        Invoke("StringToEigen", EigenEntry(str, shape[1], shape[2]), << >>, NoCheck,
               << >>, 0, "idle", FALSE)

\* StringToEigen on the text of Rows*Cols numbers
CallStringToEigenOnMatrixText ==
    /\ Idle
    /\ \E shape \in Shapes :
      \E vals \in [1..(shape[1] * shape[2]) -> NumVals], pad \in BOOLEAN,
         last \in {",", "]"}, tail \in Tails :
        Invoke("StringToEigen",
               EigenEntry(MatrixText(vals, pad, last, tail), shape[1], shape[2]),
               vals, NoCheck, << >>, 0, "idle", FALSE)

EigenStep(at, next) ==
    /\ fn = "StringToEigen"
    /\ f.pc = at
    /\ f' = next
    /\ UNCHANGED <<fn, expect, c, args, res, truth, status, chained>>

StepSeekOpen == EigenStep("seek_open", SeekOpen(f))

StepOpenBracket == EigenStep("open", OpenBracket(f))

StepSeekNumber == EigenStep("seek_number", SeekNumber(f))

StepSeekEnd == EigenStep("seek_end", SeekEnd(f))

StepConvert == EigenStep("convert", Convert(f))

StepReturn == EigenStep("return", Return(f))

EigenNext ==
    \/ StepSeekOpen
    \/ StepOpenBracket
    \/ StepSeekNumber
    \/ StepSeekEnd
    \/ StepConvert
    \/ StepReturn

CallCheck2DArraySize ==
    /\ Idle
    /\ \E arr \in Arrays, rows \in (0 - 1)..(MaxArr + 1), cols \in (0 - 1)..(MaxArr + 1) :
        Invoke("Check2DArraySize", NoFrame, << >>, CheckEntry(arr, rows, cols),
               << >>, 0, "idle", FALSE)

StepCheckOuter ==
    /\ fn = "Check2DArraySize"
    /\ c.pc = "outer"
    /\ c' = CheckOuter(c)
    /\ UNCHANGED <<fn, f, expect, args, res, truth, status, chained>>

StepCheckInner ==
    /\ fn = "Check2DArraySize"
    /\ c.pc = "inner"
    /\ c' \in CheckInner(c)
    /\ UNCHANGED <<fn, f, expect, args, res, truth, status, chained>>

CallIsNumbersEqual ==
    /\ Idle
    /\ \E a \in Num, b \in Num, tol \in Num :
        /\ fn' = "IsNumbersEqual"
        /\ args' = <<a, b, tol>>
        /\ truth' = IsNumbersEqual(a, b, tol)
        /\ status' = "returned"
        /\ UNCHANGED <<f, expect, c, res, chained>>

\* assert( min <= max ) holds
CallWrapRange ==
    /\ Idle
    /\ \E target \in Num, min \in Num, max \in Num :
        /\ min <= max
        /\ Invoke("WrapRange", NoFrame, << >>, NoCheck, <<target, min, max>>,
                  WrapRange(target, min, max), "returned", FALSE)

\* assert( min <= max ) fails: the call aborts, or, in a build with NDEBUG,
\* goes on
CallWrapRangeOutsideContract ==
    /\ Idle
    /\ \E target \in Num, min \in Num, max \in Num, st \in {"aborted", "returned"} :
        /\ ~(min <= max)
        /\ Invoke("WrapRange", NoFrame, << >>, NoCheck, <<target, min, max>>,
                  IF st = "aborted" THEN 0 ELSE WrapRange(target, min, max),
                  st, FALSE)

\* WrapRange again on the value it returned, with the same range
CallWrapRangeOnResult ==
    /\ fn = "WrapRange"
    /\ status = "returned"
    /\ args[2] <= args[3]
    /\ Invoke("WrapRange", NoFrame, << >>, NoCheck, <<res, args[2], args[3]>>,
              WrapRange(res, args[2], args[3]), "returned", TRUE)

CallApplyDeadband ==
    /\ Idle
    /\ \E x \in Num, range \in Num :
        Invoke("ApplyDeadband", NoFrame, << >>, NoCheck, <<x, range>>,
               ApplyDeadband(x, range), "returned", FALSE)

CallApplyDeadbandRange ==
    /\ Idle
    /\ \E x \in Num, range \in Num, min \in Num, max \in Num :
        Invoke("ApplyDeadbandRange", NoFrame, << >>, NoCheck,
               <<x, range, min, max>>, ApplyDeadbandRange(x, range, min, max),
               "returned", FALSE)

Next ==
    \/ CallStringToEigen
    \/ CallStringToEigenOnMatrixText
    \/ EigenNext
    \/ CallCheck2DArraySize
    \/ StepCheckOuter
    \/ StepCheckInner
    \/ CallIsNumbersEqual
    \/ CallWrapRange
    \/ CallWrapRangeOutsideContract
    \/ CallWrapRangeOnResult
    \/ CallApplyDeadband
    \/ CallApplyDeadbandRange

Spec == Init /\ [][Next]_vars

\* a call that was started runs on: the function's code is sequential and
\* nothing preempts it for ever
FairSpec == Spec /\ WF_vars(EigenNext)

----------------------------------------------------------------------------
(* The grammar of a matrix string, stated on the string alone               *)

Min(S) == CHOOSE k \in S : \A l \in S : k <= l

\* the place of the first character that is not a space (0: there is none)
FirstNonSpace(s) ==
    LET ks == {k \in 1..Len(s) : s[k] # " "}
    IN  IF ks = {} THEN 0 ELSE Min(ks)

OpensWithBracket(s) == FirstNonSpace(s) # 0 /\ s[FirstNonSpace(s)] = "["

\* the places of ',' and ']' after the opening bracket
Terminators(s) ==
    {p \in (FirstNonSpace(s) + 1)..Len(s) : s[p] \in {",", "]"}}

\* the place of the n-th terminator (n in 1..Cardinality(Terminators(s)))
NthTerminator(s, n) ==
    CHOOSE p \in Terminators(s) :
        Cardinality({q \in Terminators(s) : q <= p}) = n

\* the text of the k-th number: what stands between the terminator of the
\* number before it (the bracket for the first) and its own terminator
NumberField(s, k) ==
    LET from == IF k = 1 THEN FirstNonSpace(s) ELSE NthTerminator(s, k - 1)
    IN  SubSeq(s, from + 1, NthTerminator(s, k) - 1)

InEigen == fn = "StringToEigen"

Size(fr) == fr.Rows * fr.Cols

----------------------------------------------------------------------------
(* Claims                                                                   *)

\* C1: a call on the text of Rows*Cols numbers n_0 .. n_(Rows*Cols-1)
\* (optional spaces, '[', the numbers separated by ',', each optionally
\* preceded by a space, a terminator) returns, and the matrix returned has
\* n_(i*Cols+j) at (i, j) for every 0 <= i < Rows, 0 <= j < Cols.
RowMajorFill ==
    (InEigen /\ expect # << >> /\ Finished(f)) =>
        /\ f.pc = "returned"
        /\ DOMAIN f.ret = Indices(f.Rows, f.Cols)
        /\ \A x \in Indices(f.Rows, f.Cols) :
               f.ret[x] = expect[x[1] * f.Cols + x[2] + 1]

\* a 2x2 matrix was returned whose (0,1) and (1,0) entries differ
RowMajorFillWitness ==
    /\ InEigen /\ expect # << >> /\ f.pc = "returned"
    /\ f.Rows = 2 /\ f.Cols = 2
    /\ expect[2] # expect[3]
    /\ f.ret[<<0, 1>>] = expect[2]

\* C2: on a string whose first character after the leading spaces is not
\* '[' (the empty string and a string of spaces included) the call throws
\* before any number is converted and returns no matrix:
\* std::runtime_error at a character other than '[', std::out_of_range
\* from str.at at the end of the string.
MissingBracketFails ==
    (InEigen /\ ~OpensWithBracket(f.str)) =>
        /\ f.pc \in {"seek_open", "open", "thrown"}
        /\ f.m = NoMatrix /\ f.ret = NoMatrix
        /\ f.pc = "thrown" =>
               f.exc = IF FirstNonSpace(f.str) = 0 THEN "out_of_range"
                       ELSE "runtime_error"

\* the call threw at a character other than '[' after skipping a space
MissingBracketFailsWitness ==
    /\ InEigen /\ ~OpensWithBracket(f.str)
    /\ f.pc = "thrown" /\ f.exc = "runtime_error" /\ f.pos > 0
    /\ Terminators(f.str) # {}

WrapRangeClamps ==
    (fn = "WrapRange" /\ status = "returned" /\ args[2] <= args[3]) =>
        /\ args[2] <= res /\ res <= args[3]
        /\ chained => res = args[1]

\* WrapRange was applied to a value it had returned, a bound of the range
WrapRangeClampsWitness ==
    /\ fn = "WrapRange" /\ status = "returned" /\ chained
    /\ args[2] < args[3] /\ res = args[3]

\* C5: ApplyDeadband(x, range) is 0 when |x| < range and x when
\* |x| >= range.
DeadbandZeroesInside ==
    fn = "ApplyDeadband" =>
        /\ Abs(args[1]) < args[2] => res = 0
        /\ Abs(args[1]) >= args[2] => res = args[1]

\* x = -range, not zero, was passed through
DeadbandZeroesInsideWitness ==
    /\ fn = "ApplyDeadband"
    /\ args[1] = 0 - args[2] /\ args[1] # 0 /\ res = args[1]

\* C6: for tol >= 0, IsNumbersEqual(a, b, tol) is true exactly when a and b
\* differ by at most tol; it is symmetric in a and b, and reflexive.
TolerantEquality ==
    (fn = "IsNumbersEqual" /\ args[3] >= 0) =>
        /\ truth = (args[1] - args[2] <= args[3] /\ args[2] - args[1] <= args[3])
        /\ IsNumbersEqual(args[2], args[1], args[3]) = truth
        /\ IsNumbersEqual(args[1], args[1], args[3])

\* two different numbers exactly tol apart compared equal
TolerantEqualityWitness ==
    /\ fn = "IsNumbersEqual" /\ args[3] > 0
    /\ args[1] - args[2] = args[3] /\ truth

\* C7: Check2DArraySize(arr, rows, cols) never indexes arr outside its
\* bounds, and returns true exactly when arr has rows inner sequences, each
\* of cols elements.
ShapeCheck ==
    fn = "Check2DArraySize" =>
        /\ ~c.oob
        /\ c.pc = "returned" =>
               c.ret = (/\ Len(c.arr) = c.rows
                        /\ \A k \in 1..Len(c.arr) : Len(c.arr[k]) = c.cols)

\* false was returned for two rows of which only the second has the wrong
\* length
ShapeCheckWitness ==
    /\ fn = "Check2DArraySize" /\ c.pc = "returned" /\ c.ret = FALSE
    /\ c.rows = 2 /\ Len(c.arr) = 2
    /\ Len(c.arr[1]) = c.cols /\ Len(c.arr[2]) # c.cols

\* C8: ApplyDeadband(x, range, min, max) with min <= max returns y
\* restricted to [min, max], where y is 0 when |x| < range and x otherwise.
DeadbandThenClamp ==
    (fn = "ApplyDeadbandRange" /\ args[3] <= args[4]) =>
        LET y == IF Abs(args[1]) < args[2] THEN 0 ELSE args[1]
        IN  /\ y < args[3] => res = args[3]
            /\ y > args[4] => res = args[4]
            /\ (args[3] <= y /\ y <= args[4]) => res = y

\* a value inside the deadband was zeroed and then moved to min > 0
DeadbandThenClampWitness ==
    /\ fn = "ApplyDeadbandRange" /\ args[3] <= args[4]
    /\ args[1] # 0 /\ Abs(args[1]) < args[2]
    /\ args[3] > 0 /\ res = args[3]

\* what a call that ended hands to its caller
Outcome(fr) == <<fr.pc, fr.exc, fr.ret>>

\* the string up to and including the terminator of its last number
UpToLastTerminator(fr) == SubSeq(fr.str, 1, NthTerminator(fr.str, Size(fr)))

HasAllTerminators(fr) ==
    OpensWithBracket(fr.str) /\ Cardinality(Terminators(fr.str)) >= Size(fr)

Measure(fr) ==
    IF Finished(fr) THEN 0
    ELSE 3 * (Len(fr.str) - fr.pos)
         + (CASE fr.pc = "seek_open" -> 2 [] fr.pc = "open" -> 1
              [] fr.pc = "seek_number" -> 3 [] fr.pc = "seek_end" -> 2
              [] fr.pc = "convert" -> 1 [] fr.pc = "return" -> 1)

CursorInString == InEigen => (f.pos >= 0 /\ f.pos <= Len(f.str))

EndsWhole ==
    (InEigen /\ Finished(f)) =>
        \/ f.pc = "returned" /\ DOMAIN f.ret = Indices(f.Rows, f.Cols)
        \/ f.pc = "thrown" /\ f.exc # "none" /\ f.ret = NoMatrix

CursorStep ==
    (InEigen /\ f' # f) =>
        /\ f'.pos >= f.pos
        /\ f'.pos > f.pos \/ f'.pc # f.pc
        /\ Measure(f') < Measure(f)

\* C10: a call of StringToEigen ends: the cursor stays within the string
\* (every read is str.at's), never moves back, every step moves it forward
\* or leaves the loop it is in, and the call, once started, reaches its end,
\* where it has returned a fully written matrix or thrown.
StringToEigenTerminates ==
    /\ [](CursorInString /\ EndsWhole)
    /\ [][CursorStep]_vars
    /\ (InEigen ~> Finished(f))

\* a call returned several numbers with the cursor at the end of the string
StringToEigenTerminatesWitness ==
    /\ InEigen /\ f.pc = "returned" /\ f.pos = Len(f.str)
    /\ f.Rows * f.Cols > 1

============================================================================
